---- MODULE Spec2Model ----
(***************************************************************************)
(* Model of backend/ml_model/fraud_detector.py: the FraudDetector class    *)
(* (load_model, extract_features, rule_based_detection,                    *)
(* _validate_upi_format, _is_suspicious_upi, predict).                     *)
(*                                                                         *)
(* Representation                                                          *)
(*  - A Python str that the code inspects character by character (the UPI  *)
(*    ids) is a sequence of one-character strings.  A str that the code    *)
(*    only tests for truth and membership (location, device_id,            *)
(*    transaction_type) is a TLA+ string.                                  *)
(*  - An attribute of the transaction object is a record with a tag:       *)
(*    "noattr" (reading it raises AttributeError), "None", or "str".       *)
(*  - Money is counted in paise (1/100 rupee), scores and probabilities in *)
(*    hundredths, so that every comparison of the code is an integer       *)
(*    comparison.                                                          *)
(*  - A call's outcome is a record with a kind: "none" (no call yet),      *)
(*    "raised" (the call ended with an exception), "verdict", "features",  *)
(*    "bool".                                                              *)
(***************************************************************************)
EXTENDS Integers, Sequences, FiniteSets, TLC

VARIABLES
    model_file,   \* os.path.exists(settings.ML_MODEL_PATH)
    scaler_file,  \* os.path.exists(settings.SCALER_PATH)
    model,        \* FraudDetector.model ("uninit" before __init__ has run)
    txn,          \* the transaction object of the last call
    upi_id,       \* the argument of the last address-check call
    result,       \* what the last call returned (or that it raised)
    cnn_out,      \* what the network's predict did in the last predict call
    lastOp,       \* the last operation that ran
    now           \* datetime.now()

vars == <<model_file, scaler_file, model, txn, upi_id, result, cnn_out, lastOp, now>>

----------------------------------------------------------------------------
(* Bounds of the model *)

\* longest address, counted in pieces of AddressPieces
MaxPieces == 5
\* the clock stops here
MaxNow == 1

----------------------------------------------------------------------------
(* Python values *)

None == [tag |-> "None"]
NoAttr == [tag |-> "noattr"]
Str(s) == [tag |-> "str", s |-> s]

NoResult == [kind |-> "none"]
Raised == [kind |-> "raised"]
Bool(b) == [kind |-> "bool", val |-> b]

HasAttr(v) == v.tag # "noattr"
IsStr(v) == v.tag = "str"

\* truth value of a character-sequence attribute (None and '' are false)
TruthySeq(v) == v.tag = "str" /\ Len(v.s) > 0
\* truth value of a plain string attribute
TruthyStr(v) == v.tag = "str" /\ v.s # ""

UpperCase == <<"A","B","C","D","E","F","G","H","I","J","K","L","M",
               "N","O","P","Q","R","S","T","U","V","W","X","Y","Z">>
LowerCase == <<"a","b","c","d","e","f","g","h","i","j","k","l","m",
               "n","o","p","q","r","s","t","u","v","w","x","y","z">>
Digits == {"0","1","2","3","4","5","6","7","8","9"}

Range(f) == {f[i] : i \in DOMAIN f}
Letters == Range(UpperCase) \cup Range(LowerCase)

\* str.lower() on one character, then on a string (ids are over ASCII)
lower_char(c) ==
    IF \E i \in DOMAIN UpperCase : UpperCase[i] = c
    THEN LowerCase[CHOOSE i \in DOMAIN UpperCase : UpperCase[i] = c]
    ELSE c
lower(s) == [i \in DOMAIN s |-> lower_char(s[i])]

isdigit(c) == c \in Digits

\* keyword in s
Contains(s, k) ==
    \E i \in 1..(Len(s) - Len(k) + 1) : SubSeq(s, i, i + Len(k) - 1) = k

\* s.split('@')[0]
split_at_first(s) ==
    IF \E i \in DOMAIN s : s[i] = "@"
    THEN SubSeq(s, 1, (CHOOSE i \in DOMAIN s :
                          s[i] = "@" /\ \A j \in 1..(i-1) : s[j] # "@") - 1)
    ELSE s

----------------------------------------------------------------------------
(* _validate_upi_format *)

LocalChars == Letters \cup Digits \cup {".", "-", "_"}

\* re.match(r'^[a-zA-Z0-9.\-_]{3,}@[a-zA-Z]{3,}$', s); '$' also matches just
\* before one trailing newline
MatchesUpiPattern(s) ==
    \E e \in {Len(s), Len(s) - 1} :
        /\ e >= 0
        /\ (e = Len(s) - 1 => s[Len(s)] = "\n")
        /\ \E i \in 1..e :
              /\ s[i] = "@"
              /\ i - 1 >= 3
              /\ \A j \in 1..(i-1) : s[j] \in LocalChars
              /\ e - i >= 3
              /\ \A j \in (i+1)..e : s[j] \in Letters

_validate_upi_format(upi) ==
    IF ~TruthySeq(upi) THEN FALSE ELSE MatchesUpiPattern(upi.s)

----------------------------------------------------------------------------
(* _is_suspicious_upi *)

suspicious_keywords ==
    << <<"t","e","s","t">>, <<"f","a","k","e">>, <<"d","u","m","m","y">>,
       <<"f","r","a","u","d">>, <<"s","c","a","m">>,
       <<"1","2","3","4","5","6">>, <<"a","d","m","i","n">>,
       <<"t","e","m","p">> >>

CountDigits(s) == Cardinality({i \in DOMAIN s : isdigit(s[i])})

\* the keywords are looked for in the whole lower-cased id
HasKeywordAnywhere(s) ==
    LET upi_lower == lower(s) IN
    \E n \in DOMAIN suspicious_keywords : Contains(upi_lower, suspicious_keywords[n])

\* sum(c.isdigit() for c in username) / len(username) > 0.7
TooManyDigits(username) ==
    Len(username) > 0 /\ 10 * CountDigits(username) > 7 * Len(username)

\* variant: the keywords are looked for in the username only
_is_suspicious_upi_UsernameOnly(upi) ==
    IF ~TruthySeq(upi) THEN TRUE
    ELSE LET username == split_at_first(upi.s) IN
         IF HasKeywordAnywhere(username) THEN TRUE
         ELSE IF TooManyDigits(username) THEN TRUE
         ELSE IF Len(username) < 3 THEN TRUE
         ELSE FALSE

_is_suspicious_upi(upi) ==
    IF ~TruthySeq(upi) THEN TRUE
    ELSE IF HasKeywordAnywhere(upi.s) THEN TRUE
    ELSE LET username == split_at_first(upi.s) IN
         IF TooManyDigits(username) THEN TRUE
         ELSE IF Len(username) < 3 THEN TRUE
         ELSE FALSE

----------------------------------------------------------------------------
(* rule_based_detection *)

\* an amount written in rupees, in paise
Rupees(n) == n * 100

\* the reason texts (without the rupee sign; a text with a placeholder is an
\* f-string, whose value goes into arg)
HighText == "High transaction amount (>50,000)"
ExtremeText == "Extremely high amount (>1,00,000)"
OddHourText == "Unusual transaction time ({hour}:00 hrs)"
RoundText == "Round amount ({int(amount):,})"
ContextText == "Missing or invalid location/device data"
SelfText == "Self-transfer detected (same UPI IDs)"
InvalidSenderText == "Invalid sender UPI format"
InvalidReceiverText == "Invalid receiver UPI format"
SuspiciousText == "Suspicious UPI pattern detected"
SmallText == "Small amount transaction pattern"
PrecisionText == "Unusual amount precision"

Reason(text, arg) == [text |-> text, arg |-> arg]
Hit(w, rs) == [w |-> w, reasons |-> rs]
Miss == Hit(0, << >>)

\* Rule 1: if amount > 50000 ... elif amount > 100000 ...
Rule1_amount(amount) ==
    IF amount > Rupees(50000)
    THEN Hit(30, << Reason(HighText, 0) >>)
    ELSE IF amount > Rupees(100000)
    THEN Hit(50, << Reason(ExtremeText, 0) >>)
    ELSE Miss

\* Rule 2: hour < 6 or hour > 22
Rule2_time(hour) ==
    IF hour < 6 \/ hour > 22
    THEN Hit(20, << Reason(OddHourText, hour) >>)
    ELSE Miss

\* variant: the round-amount rule starts at 100000 instead of 10000
Rule3_round_From100000(amount) ==
    IF amount % Rupees(1000) = 0 /\ amount > Rupees(100000)
    THEN Hit(15, << Reason(RoundText, amount \div 100) >>)
    ELSE Miss

\* Rule 3: amount % 1000 == 0 and amount > 10000
Rule3_round(amount) ==
    IF amount % Rupees(1000) = 0 /\ amount > Rupees(10000)
    THEN Hit(15, << Reason(RoundText, amount \div 100) >>)
    ELSE Miss

InvalidLocations == {"Location unavailable", "Geolocation not supported", "Unknown"}

\* Rule 4: not device_id or not location or location in [...]; the operands
\* are read left to right and only as far as the result needs
Rule4_raises(t) ==
    \/ ~HasAttr(t.device_id)
    \/ TruthyStr(t.device_id) /\ ~HasAttr(t.location)

Rule4_context(t) ==
    IF \/ ~TruthyStr(t.device_id)
       \/ ~TruthyStr(t.location)
       \/ t.location.s \in InvalidLocations
    THEN Hit(35, << Reason(ContextText, 0) >>)
    ELSE Miss

\* variant: the ids are compared only when the sender id is well formed
Rule5_self_ValidOnly(t) ==
    IF _validate_upi_format(t.sender_upi) /\ t.sender_upi = t.receiver_upi
    THEN Hit(60, << Reason(SelfText, 0) >>)
    ELSE Miss

\* Rule 5: sender_upi == receiver_upi
Rule5_self(t) ==
    IF t.sender_upi = t.receiver_upi
    THEN Hit(60, << Reason(SelfText, 0) >>)
    ELSE Miss

\* Rule 6: one +0.5 when either id is invalid, one reason per invalid id
Rule6_format(t) ==
    LET sender_valid == _validate_upi_format(t.sender_upi)
        receiver_valid == _validate_upi_format(t.receiver_upi)
    IN  IF ~sender_valid \/ ~receiver_valid
        THEN Hit(50,
                 (IF ~sender_valid
                  THEN << Reason(InvalidSenderText, 0) >> ELSE << >>)
                 \o
                 (IF ~receiver_valid
                  THEN << Reason(InvalidReceiverText, 0) >> ELSE << >>))
        ELSE Miss

\* Rule 7
Rule7_suspicious(t) ==
    IF _is_suspicious_upi(t.sender_upi) \/ _is_suspicious_upi(t.receiver_upi)
    THEN Hit(25, << Reason(SuspiciousText, 0) >>)
    ELSE Miss

\* Rule 8: 100 <= amount <= 500
Rule8_small(amount) ==
    IF Rupees(100) <= amount /\ amount <= Rupees(500)
    THEN Hit(10, << Reason(SmallText, 0) >>)
    ELSE Miss

\* str(amount).split('.')[-1] for a float with at most two decimals: repr
\* drops a trailing zero and always keeps one digit after the point
FractionDigits(amount) ==
    LET frac == amount % 100 IN
    IF frac % 10 = 0 THEN << frac \div 10 >>
    ELSE << frac \div 10, frac % 10 >>

NormalEndings == { <<0>>, <<0, 0>>, <<5>>, <<5, 0>> }

\* Rule 9: amount > 1000 and not (amount % 10 == 0), then the digits test
Rule9_precision(amount) ==
    IF /\ amount > Rupees(1000)
       /\ amount % Rupees(10) # 0
       /\ FractionDigits(amount) \notin NormalEndings
    THEN Hit(10, << Reason(PrecisionText, 0) >>)
    ELSE Miss

Min(a, b) == IF a <= b THEN a ELSE b

\* variant: >= in place of >
IsFraudScore_AtLeast(fraud_score) == fraud_score >= 50

\* is_fraud = fraud_score > 0.5.  The code adds the weights as floats; over
\* every combination of rules the float sum is within 1e-9 of the exact sum
\* in hundredths and on the same side of 0.5.
IsFraudScore(fraud_score) == fraud_score > 50

\* variant: the score is returned as it is
ClampScore_NoClamp(fraud_score) == fraud_score

\* fraud_probability = min(fraud_score, 1.0)
ClampScore(fraud_score) == Min(fraud_score, 100)

\* what reading the attributes of lines 105-149 raises
RuleReadsRaise(t) ==
    \/ Rule4_raises(t)
    \/ ~HasAttr(t.sender_upi)
    \/ ~HasAttr(t.receiver_upi)

RuleHits(t) ==
    << Rule1_amount(t.amount), Rule2_time(t.created_at.hour),
       Rule3_round(t.amount), Rule4_context(t), Rule5_self(t),
       Rule6_format(t), Rule7_suspicious(t), Rule8_small(t.amount),
       Rule9_precision(t.amount) >>

RECURSIVE SumWeights(_)
SumWeights(hits) ==
    IF hits = << >> THEN 0 ELSE Head(hits).w + SumWeights(Tail(hits))

RECURSIVE AllReasons(_)
AllReasons(hits) ==
    IF hits = << >> THEN << >>
    ELSE Head(hits).reasons \o AllReasons(Tail(hits))

rule_based_detection(t, clock) ==
    IF RuleReadsRaise(t) THEN Raised
    ELSE LET fraud_score == SumWeights(RuleHits(t)) IN
         [kind |-> "verdict",
          is_fraud |-> IsFraudScore(fraud_score),
          fraud_probability |-> ClampScore(fraud_score),
          detection_method |-> "rule_based",
          reasons |-> AllReasons(RuleHits(t)),
          timestamp |-> clock]

----------------------------------------------------------------------------
(* extract_features *)

\* a float, kept as the quotient the code computes it from
Frac(n, d) == << n, d >>
Zero == Frac(0, 1)
One == Frac(1, 1)

\* type_encoding.get(transaction.transaction_type, 0)
type_encoding(transaction_type) ==
    CASE transaction_type = "SEND" -> 0
      [] transaction_type = "RECEIVE" -> 1
      [] transaction_type = "REQUEST" -> 2
      [] OTHER -> 0

\* len(None) raises TypeError, a missing attribute AttributeError
ExtractRaises(t) ==
    \/ ~IsStr(t.sender_upi)
    \/ ~IsStr(t.receiver_upi)
    \/ ~HasAttr(t.location)
    \/ ~HasAttr(t.device_id)

\* lines 53-76; hour is created_at.hour / 23.0 from line 61 on
BasicFeatures(t) ==
    << Frac(t.amount, Rupees(100000)),
       Frac(type_encoding(t.transaction_type), 2),
       Frac(t.created_at.hour, 23),
       Frac(t.created_at.weekday, 6),
       Frac(Len(t.sender_upi.s), 100),
       Frac(Len(t.receiver_upi.s), 100),
       IF TruthyStr(t.location) THEN One ELSE Zero,
       IF TruthyStr(t.device_id) THEN One ELSE Zero >>

\* variant: the hour of the day in place of its fraction
AmountTimesHour_RawHour(t) == Frac(t.amount * t.created_at.hour, 100)

\* amount * hour, with amount in rupees and hour the fraction of line 61
AmountTimesHour(t) == Frac(t.amount * t.created_at.hour, 100 * 23)

\* the while loop of lines 81-86
RECURSIVE PadFeatures(_, _)
PadFeatures(features, t) ==
    IF Len(features) < 64
    THEN IF Len(features) < 16
         THEN PadFeatures(Append(features,
                  IF Len(features) = 8 THEN AmountTimesHour(t) ELSE Zero), t)
         ELSE PadFeatures(Append(features, Zero), t)
    ELSE features

\* features[:64]; the cast to float32 rounds each value and is not modelled
extract_features(t) ==
    IF ExtractRaises(t) THEN Raised
    ELSE LET features == PadFeatures(BasicFeatures(t), t) IN
         [kind |-> "features",
          vec |-> SubSeq(features, 1, Min(64, Len(features)))]

----------------------------------------------------------------------------
(* load_model and predict *)

Uninit == [tag |-> "uninit"]
\* FraudDetectionCNN after its load_model has returned
Cnn(net) == [tag |-> "cnn", model |-> net]
LoadedNet == [tag |-> "net"]

\* FraudDetectionCNN.load_model: returns with the network set, or raises
CnnLoadOutcomes == {"loaded", "raise"}

NotCalled == [kind |-> "notcalled"]

\* FraudDetectionCNN.predict(features)[0][0]: a probability, or it raises
InferenceOutcomes ==
    { [kind |-> "raise"] } \cup { [kind |-> "prob", p |-> p] : p \in {0, 50, 51, 100} }

\* self.model is not None and self.model.model is not None
Available(m) == m.tag = "cnn" /\ m.model # None

\* the value load_model leaves in self.model
LoadedModel(mfile, sfile, cnn_load) ==
    IF mfile /\ sfile
    THEN IF cnn_load = "raise" THEN None ELSE Cnn(LoadedNet)
    ELSE None

\* is_fraud = probability > 0.5
IsFraudProbability(probability) == probability > 50

Abs(x) == IF x < 0 THEN -x ELSE x

\* lines 224-241, the body of the try
PredictTry(m, t, inference, clock) ==
    IF Available(m)
    THEN IF extract_features(t) = Raised THEN Raised
         ELSE IF inference.kind = "raise" THEN Raised
         ELSE [kind |-> "verdict",
               is_fraud |-> IsFraudProbability(inference.p),
               fraud_probability |-> inference.p,
               detection_method |-> "cnn_model",
               confidence |-> Abs(inference.p - 50) * 2,
               timestamp |-> clock]
    ELSE rule_based_detection(t, clock)

\* variant: no except clause
PredictResult_NoFallback(m, t, inference, clock) ==
    PredictTry(m, t, inference, clock)

\* lines 223-246: an exception of the try body ends in the rule-based call,
\* whose own exception leaves predict
PredictResult(m, t, inference, clock) ==
    LET r == PredictTry(m, t, inference, clock) IN
    IF r = Raised THEN rule_based_detection(t, clock) ELSE r

----------------------------------------------------------------------------
(* Transactions *)

Txn(amount, hour, weekday, ttype, sender, receiver, location, device) ==
    [amount |-> amount,
     transaction_type |-> ttype,
     created_at |-> [hour |-> hour, weekday |-> weekday],
     sender_upi |-> sender,
     receiver_upi |-> receiver,
     location |-> location,
     device_id |-> device]

ravi == Str(<<"r","a","v","i",".","k","u","m","a","r","@","i","c","i","c","i">>)
john == Str(<<"j","o","h","n","@","p","a","y","t","m">>)
admin123 == Str(<<"a","d","m","i","n","1","2","3","@","y","b","l">>)
jo == Str(<<"j","o","@","p","a","y","t","m">>)
john_pt == Str(<<"j","o","h","n","@","p","t">>)
abc_testbank == Str(<<"a","b","c","@","t","e","s","t","b","a","n","k">>)

----------------------------------------------------------------------------
(* The engine: a FraudDetector object, its callers and its environment *)

EngineTxns ==
    { Txn(a, h, 0, "SEND", s, john, l, d) :
        a \in {Rupees(75010), Rupees(150000)},
        h \in {5, 12},
        s \in {ravi, john, None},
        l \in {Str("Kochi"), NoAttr},
        d \in {Str("dev-1"), None, NoAttr} }

Init ==
    /\ model_file \in BOOLEAN
    /\ scaler_file \in BOOLEAN
    /\ model = Uninit
    /\ txn = None
    /\ upi_id = None
    /\ result = NoResult
    /\ cnn_out = NotCalled
    /\ lastOp = "none"
    /\ now = 0

\* __init__: self.model = None, then load_model()
Construct ==
    /\ model = Uninit
    /\ \E cnn_load \in CnnLoadOutcomes :
          model' = LoadedModel(model_file, scaler_file, cnn_load)
    /\ lastOp' = "__init__"
    /\ UNCHANGED <<model_file, scaler_file, txn, upi_id, result, cnn_out, now>>

\* load_model called again on the constructed object
LoadModel ==
    /\ model # Uninit
    /\ \E cnn_load \in CnnLoadOutcomes :
          model' = LoadedModel(model_file, scaler_file, cnn_load)
    /\ lastOp' = "load_model"
    /\ UNCHANGED <<model_file, scaler_file, txn, upi_id, result, cnn_out, now>>

\* the caller builds the transaction object it will pass to predict
Submit ==
    /\ \E t \in EngineTxns :
          /\ t # txn
          /\ txn' = t
    /\ result' = NoResult
    /\ cnn_out' = NotCalled
    /\ lastOp' = "submit"
    /\ UNCHANGED <<model_file, scaler_file, model, upi_id, now>>

\* variant: predict tries the load again when the model is not there
Predict_LazyLoad ==
    /\ model # Uninit
    /\ txn # None
    /\ LET m == IF Available(model) THEN model
                ELSE LoadedModel(model_file, scaler_file, "loaded") IN
       /\ model' = m
       /\ IF Available(m) /\ extract_features(txn) # Raised
          THEN \E inference \in InferenceOutcomes :
                  /\ cnn_out' = inference
                  /\ result' = PredictResult(m, txn, inference, now)
          ELSE /\ cnn_out' = NotCalled
               /\ result' = PredictResult(m, txn, NotCalled, now)
    /\ lastOp' = "predict"
    /\ UNCHANGED <<model_file, scaler_file, txn, upi_id, now>>

\* predict(transaction): the network is asked only when the model is there
\* and the features could be built
Predict ==
    /\ model # Uninit
    /\ txn # None
    /\ IF Available(model) /\ extract_features(txn) # Raised
       THEN \E inference \in InferenceOutcomes :
               /\ cnn_out' = inference
               /\ result' = PredictResult(model, txn, inference, now)
       ELSE /\ cnn_out' = NotCalled
            /\ result' = PredictResult(model, txn, NotCalled, now)
    /\ lastOp' = "predict"
    /\ UNCHANGED <<model_file, scaler_file, model, txn, upi_id, now>>

\* the model files appear or disappear on disk
FilesChange ==
    /\ \E m \in BOOLEAN, s \in BOOLEAN :
          /\ <<m, s>> # <<model_file, scaler_file>>
          /\ model_file' = m
          /\ scaler_file' = s
    /\ lastOp' = "files"
    /\ UNCHANGED <<model, txn, upi_id, result, cnn_out, now>>

Tick ==
    /\ now < MaxNow
    /\ now' = now + 1
    /\ lastOp' = "tick"
    /\ UNCHANGED <<model_file, scaler_file, model, txn, upi_id, result, cnn_out>>

Next == Construct \/ LoadModel \/ Submit \/ Predict \/ FilesChange \/ Tick

Spec == Init /\ [][Next]_vars

----------------------------------------------------------------------------
(* The address checks as called on their own *)

AddressPieces ==
    { <<"t","e","s","t">>, <<"A","d","m","i","n">>, <<"y","b","l">>,
      <<"a">>, <<"1">>, <<"@">> }

RECURSIVE StringsOf(_)
StringsOf(n) ==
    IF n = 0 THEN { <<>> }
    ELSE LET shorter == StringsOf(n - 1) IN
         shorter \cup { s \o p : s \in shorter, p \in AddressPieces }

AddressInputs == {None} \cup { Str(s) : s \in StringsOf(MaxPieces) }

InitAddr ==
    /\ model_file = FALSE
    /\ scaler_file = FALSE
    /\ model = Uninit
    /\ txn = None
    /\ upi_id \in AddressInputs
    /\ result = NoResult
    /\ cnn_out = NotCalled
    /\ lastOp = "none"
    /\ now = 0

CallIsSuspicious ==
    /\ lastOp = "none"
    /\ result' = Bool(_is_suspicious_upi(upi_id))
    /\ lastOp' = "_is_suspicious_upi"
    /\ UNCHANGED <<model_file, scaler_file, model, txn, upi_id, cnn_out, now>>

CallValidate ==
    /\ lastOp = "none"
    /\ result' = Bool(_validate_upi_format(upi_id))
    /\ lastOp' = "_validate_upi_format"
    /\ UNCHANGED <<model_file, scaler_file, model, txn, upi_id, cnn_out, now>>

NextAddr == CallIsSuspicious \/ CallValidate

SpecAddr == InitAddr /\ [][NextAddr]_vars

----------------------------------------------------------------------------
(* rule_based_detection called on its own *)

RuleAmounts ==
    { 0, Rupees(300), 123456, 123450, Rupees(1235), Rupees(20000),
      Rupees(50000), Rupees(75000), Rupees(75010), Rupees(100000),
      Rupees(150000) }

RuleTxns ==
    { Txn(a, h, 0, "SEND", s, r, l, d) :
        a \in RuleAmounts,
        h \in {2, 6, 22, 23},
        s \in {None, ravi, john, admin123, jo, abc_testbank},
        r \in {None, john, john_pt},
        l \in {NoAttr, None, Str(""), Str("Unknown"),
               Str("Location unavailable"), Str("Kochi")},
        d \in {NoAttr, None, Str("dev-1")} }

InitRules ==
    /\ model_file = FALSE
    /\ scaler_file = FALSE
    /\ model = Uninit
    /\ txn \in RuleTxns
    /\ upi_id = None
    /\ result = NoResult
    /\ cnn_out = NotCalled
    /\ lastOp = "none"
    /\ now = 0

CallRules ==
    /\ lastOp = "none"
    /\ result' = rule_based_detection(txn, now)
    /\ lastOp' = "rule_based_detection"
    /\ UNCHANGED <<model_file, scaler_file, model, txn, upi_id, cnn_out, now>>

NextRules == CallRules

SpecRules == InitRules /\ [][NextRules]_vars

----------------------------------------------------------------------------
(* extract_features called on its own *)

EncodeTxns ==
    { Txn(a, h, w, ty, s, john, l, d) :
        a \in {0, 123456, Rupees(75000), Rupees(150000)},
        h \in {0, 5, 23},
        w \in {0, 3, 6},
        ty \in {"SEND", "RECEIVE", "REQUEST", "REFUND"},
        s \in {ravi, jo, Str(<< >>), None},
        l \in {NoAttr, None, Str(""), Str("Kochi")},
        d \in {NoAttr, None, Str(""), Str("dev-1")} }

InitEncode ==
    /\ model_file = FALSE
    /\ scaler_file = FALSE
    /\ model = Uninit
    /\ txn \in EncodeTxns
    /\ upi_id = None
    /\ result = NoResult
    /\ cnn_out = NotCalled
    /\ lastOp = "none"
    /\ now = 0

CallExtract ==
    /\ lastOp = "none"
    /\ result' = extract_features(txn)
    /\ lastOp' = "extract_features"
    /\ UNCHANGED <<model_file, scaler_file, model, txn, upi_id, cnn_out, now>>

NextEncode == CallExtract

SpecEncode == InitEncode /\ [][NextEncode]_vars

----------------------------------------------------------------------------
(* Properties *)

\* the reason texts of a verdict, in order and as a set
TextsOf(v) == [i \in DOMAIN v.reasons |-> v.reasons[i].text]
TextSet(v) == { v.reasons[i].text : i \in DOMAIN v.reasons }

\* the weight the rule table gives to the rules a verdict reports; the two
\* invalid-format reasons belong to one rule
ReportedWeight(v) ==
    LET has(text) == text \in TextSet(v)
        w(cond, weight) == IF cond THEN weight ELSE 0
    IN  w(has(HighText), 30) + w(has(ExtremeText), 50) + w(has(OddHourText), 20)
        + w(has(RoundText), 15) + w(has(ContextText), 35) + w(has(SelfText), 60)
        + w(has(InvalidSenderText) \/ has(InvalidReceiverText), 50)
        + w(has(SuspiciousText), 25) + w(has(SmallText), 10)
        + w(has(PrecisionText), 10)

IsVerdict(r) == r.kind = "verdict"
IsModelVerdict(r) == r.kind = "verdict" /\ r.detection_method = "cnn_model"
IsRuleVerdict(r) == r.kind = "verdict" /\ r.detection_method = "rule_based"

\* C1: predict never raises: every call ends by returning a verdict, also for
\* a record whose optional attribute cannot be read.
C1_PredictNeverRaises ==
    lastOp = "predict" => IsVerdict(result)

\* the network was there, the features were built and the inference returned
ModelPathSucceeded ==
    /\ Available(model)
    /\ extract_features(txn) # Raised
    /\ cnn_out.kind = "prob"

\* C2: predict returns a cnn_model verdict only when the model is available
\* and both feature extraction and inference succeeded; in every other case
\* its outcome is the outcome of rule_based_detection for the same record.
C2_ModelOnlyWhenUsable ==
    lastOp = "predict" =>
        /\ IsModelVerdict(result) => ModelPathSucceeded
        /\ ~ModelPathSucceeded => result = rule_based_detection(txn, now)

C2_Witness ==
    /\ lastOp = "predict"
    /\ Available(model)
    /\ cnn_out.kind = "raise"
    /\ IsRuleVerdict(result)

OddHour(t) == t.created_at.hour < 6 \/ t.created_at.hour > 22

\* C3: for every amount above 100000 both the high-amount and the
\* extremely-high-amount rule are reported, and with the odd-hour rule as
\* well the probability is 1.0 and is_fraud is true.
C3_ExtremelyHighAdditive ==
    (lastOp = "rule_based_detection" /\ IsVerdict(result)
        /\ txn.amount > Rupees(100000)) =>
        /\ HighText \in TextSet(result)
        /\ ExtremeText \in TextSet(result)
        /\ OddHour(txn) => (result.fraud_probability = 100 /\ result.is_fraud)

\* amount 75000 at 2 o'clock, device and location given, two different
\* well-formed ids that are not suspicious
C4_Case ==
    /\ lastOp = "rule_based_detection"
    /\ txn.amount = Rupees(75000)
    /\ txn.created_at.hour = 2
    /\ TruthyStr(txn.device_id)
    /\ TruthyStr(txn.location)
    /\ txn.location.s \notin InvalidLocations
    /\ txn.sender_upi # txn.receiver_upi
    /\ _validate_upi_format(txn.sender_upi)
    /\ _validate_upi_format(txn.receiver_upi)
    /\ ~_is_suspicious_upi(txn.sender_upi)
    /\ ~_is_suspicious_upi(txn.receiver_upi)

\* C4 as stated: that record triggers the high-amount and odd-hours rules and
\* no other, so the probability is 0.5 and is_fraud is false.
C4_Original ==
    C4_Case =>
        /\ IsVerdict(result)
        /\ TextsOf(result) = << HighText, OddHourText >>
        /\ result.fraud_probability = 50
        /\ result.is_fraud = FALSE

\* C4 as amended: that record triggers the high-amount, odd-hours and
\* round-amount rules and no other, so the probability is 0.65 and is_fraud
\* is true.
C4_HighOddRound ==
    C4_Case =>
        /\ IsVerdict(result)
        /\ TextsOf(result) = << HighText, OddHourText, RoundText >>
        /\ result.fraud_probability = 65
        /\ result.is_fraud = TRUE

C4_Witness == C4_Case /\ IsVerdict(result)

\* C5: the probability of a rule-based verdict is the smaller of 1.0 and the
\* sum of the weights of the rules it reports, so it lies in [0,1] also when
\* the sum is above 1.
C5_ProbabilityClamped ==
    (lastOp = "rule_based_detection" /\ IsVerdict(result)) =>
        /\ result.fraud_probability = Min(ReportedWeight(result), 100)
        /\ result.fraud_probability >= 0
        /\ result.fraud_probability <= 100

C5_Witness ==
    /\ lastOp = "rule_based_detection"
    /\ IsVerdict(result)
    /\ ReportedWeight(result) > 100
    /\ result.fraud_probability = 100

\* C6: in every verdict predict returns, is_fraud is true exactly when the
\* fraud_probability of that verdict is above 0.5.
C6_FlagMatchesProbability ==
    (lastOp = "predict" /\ IsVerdict(result)) =>
        (result.is_fraud <=> result.fraud_probability > 50)

C6_Witness ==
    /\ lastOp = "predict"
    /\ IsRuleVerdict(result)
    /\ result.fraud_probability = 50
    /\ result.is_fraud = FALSE

\* C7: when sender and receiver id are equal, whatever the other fields, the
\* verdict reports the self-transfer rule, its probability is at least 0.6
\* and is_fraud is true.
C7_SelfTransfer ==
    (lastOp = "rule_based_detection" /\ IsVerdict(result)
        /\ txn.sender_upi = txn.receiver_upi) =>
        /\ SelfText \in TextSet(result)
        /\ result.fraud_probability >= 60
        /\ result.is_fraud = TRUE

C7_Witness ==
    /\ lastOp = "rule_based_detection"
    /\ IsVerdict(result)
    /\ txn.sender_upi = txn.receiver_upi
    /\ TruthySeq(txn.sender_upi)
    /\ SelfText \in TextSet(result)

\* the part of an id before its first '@' (the whole id when it has none)
LocalPart(upi) == split_at_first(upi.s)

\* empty or absent, too many digits in the local part, or a short local part
SuspiciousWithoutKeyword(upi) ==
    \/ ~TruthySeq(upi)
    \/ 10 * CountDigits(LocalPart(upi)) > 7 * Len(LocalPart(upi))
    \/ Len(LocalPart(upi)) < 3

\* C8 as stated: an id is suspicious exactly when it is empty or absent, or
\* its local part holds a denylist keyword, or has a digit fraction above
\* 0.7, or has fewer than 3 characters.
C8_Original ==
    lastOp = "_is_suspicious_upi" =>
        (result.val <=>
            \/ SuspiciousWithoutKeyword(upi_id)
            \/ TruthySeq(upi_id) /\ HasKeywordAnywhere(LocalPart(upi_id)))

\* C8 as amended: the keyword may stand anywhere in the id, the provider
\* after the '@' included.
C8_KeywordAnywhere ==
    lastOp = "_is_suspicious_upi" =>
        (result.val <=>
            \/ SuspiciousWithoutKeyword(upi_id)
            \/ TruthySeq(upi_id) /\ HasKeywordAnywhere(upi_id.s))

C8_Witness ==
    /\ lastOp = "_is_suspicious_upi"
    /\ ~SuspiciousWithoutKeyword(upi_id)
    /\ ~HasKeywordAnywhere(LocalPart(upi_id))
    /\ HasKeywordAnywhere(upi_id.s)
    /\ result.val = TRUE

\* the optional fields are there or None or empty, the two ids are strings
C9_Case ==
    /\ lastOp = "extract_features"
    /\ HasAttr(txn.device_id)
    /\ HasAttr(txn.location)
    /\ IsStr(txn.sender_upi)
    /\ IsStr(txn.receiver_upi)

\* C9: extract_features returns 64 values: amount/100000, type/2 (0 for an
\* unknown type), hour/23, weekday/6, the two id lengths over 100, the
\* location flag, the device flag, amount times hour/23, and then zeros.
C9_SixtyFourFeatures ==
    C9_Case =>
        /\ result.kind = "features"
        /\ Len(result.vec) = 64
        /\ result.vec[1] = Frac(txn.amount, 100 * 100000)
        /\ result.vec[2] =
              Frac(IF txn.transaction_type = "RECEIVE" THEN 1
                   ELSE IF txn.transaction_type = "REQUEST" THEN 2 ELSE 0, 2)
        /\ result.vec[3] = Frac(txn.created_at.hour, 23)
        /\ result.vec[4] = Frac(txn.created_at.weekday, 6)
        /\ result.vec[5] = Frac(Len(txn.sender_upi.s), 100)
        /\ result.vec[6] = Frac(Len(txn.receiver_upi.s), 100)
        /\ result.vec[7] =
              Frac(IF txn.location \in {None, Str("")} THEN 0 ELSE 1, 1)
        /\ result.vec[8] =
              Frac(IF txn.device_id \in {None, Str("")} THEN 0 ELSE 1, 1)
        /\ result.vec[9] = Frac(txn.amount * txn.created_at.hour, 100 * 23)
        /\ \A i \in 10..64 : result.vec[i] = Frac(0, 1)

C9_Witness ==
    /\ C9_Case
    /\ txn.device_id = None
    /\ txn.location = None
    /\ txn.transaction_type = "REFUND"
    /\ txn.amount > 0
    /\ txn.created_at.hour > 0
    /\ result.kind = "features"

Unavailable == model # Uninit /\ ~Available(model)

====
